---- MODULE Spec2Model ----
\* Model of the input-cursor layer of combine (src/stream/mod.rs): the raw
\* per-type stream operations of &str, &[T], SliceStream and PartialStream,
\* the outcome-folding free functions uncons, uncons_range, uncons_while and
\* uncons_while1, checkpoint/reset/distance, and decode.
EXTENDS Integers, Sequences, FiniteSets, TLC

\* ------------------------------------------------------------------ bounds
\* Longest input, counted in items (scalars for text, elements for slices).
MaxLen == 3
\* Number of checkpoint slots a caller holds at the same time.
MaxCps == 1
\* Address of the first unit of the original buffer.
BaseAddr == 1000

\* size_of::<i32>(), the element type of the slice test.
ElemSize == 4

\* Items: '1', ',' and the two-byte scalar U+00E9.
Digit1 == 49
Comma == 44
EAcute == 233
Alphabet == {Digit1, Comma, EAcute}

\* The cursors of this file: &str, &[T] and SliceStream.
Kinds == {"str", "slice", "SliceStream"}
\* Any other implementor of RangeStreamOnce: an item cursor that keeps the
\* trait's default uncons_while1 and whose uncons_while can return Err.
GenericKind == "Generic"
Preds == {"digit", "all", "none"}

\* The predicates handed to uncons_while / uncons_while1.
Pred(p, c) ==
  CASE p = "digit" -> c \in 48..57
    [] p = "wide" -> c >= 128
    [] p = "all" -> TRUE
    [] OTHER -> FALSE

SeqsUpTo(S, n) == UNION {[1..k -> S] : k \in 0..n}

\* ------------------------------------------------------------- UTF-8 text
\* char::len_utf8
len_utf8(c) == IF c < 128 THEN 1 ELSE IF c < 2048 THEN 2 ELSE IF c < 65536 THEN 3 ELSE 4

\* The UTF-8 encoding of one scalar (one- and two-byte forms).
EncodeChar(c) == IF c < 128 THEN <<c>> ELSE <<192 + (c \div 64), 128 + (c % 64)>>

RECURSIVE Encode(_)
Encode(cs) == IF cs = <<>> THEN <<>> ELSE EncodeChar(Head(cs)) \o Encode(Tail(cs))

\* Width of the encoded scalar that starts with lead byte b.
LeadWidth(b) == IF b < 128 THEN 1 ELSE IF b < 224 THEN 2 ELSE IF b < 240 THEN 3 ELSE 4

\* Chars::next on the bytes s (non-empty): the decoded scalar and what
\* Chars::as_str returns afterwards.
CharsNext(s) ==
  LET w == LeadWidth(s[1])
      c == IF w = 1 THEN s[1] ELSE (s[1] - 192) * 64 + (s[2] - 128)
  IN [c |-> c, rest |-> SubSeq(s, w + 1, Len(s))]

\* ------------------------------------------------------------ the cursors
\* A cursor is a slice header: the address of its first unit and the units
\* that remain.  kind is the cursor's type, partial says whether it is
\* wrapped in PartialStream.
UnitSize(kind) == IF kind = "str" THEN 1 ELSE ElemSize

MkStream(kind, partial, ptr, rem) ==
  [kind |-> kind, partial |-> partial, ptr |-> ptr, rem |-> rem]

\* PartialStream(s) wraps the cursor s; inner is its field, self.0.
PartialStream(s) == [s EXCEPT !.partial = TRUE]

inner(s) == [s EXCEPT !.partial = FALSE]

\* Mutant: PartialStream keeps the default is_partial.
is_partial_Never(s) == FALSE

\* StreamOnce::is_partial: false by default, true for PartialStream.
is_partial(s) == s.partial

\* Positioned::position: PointerOffset(as_ptr() as usize).
position(s) == s.ptr

\* PointerOffset::translate_position(initial_string): the address of the
\* original buffer is subtracted from the position.
translate_position(pos, initial_string) == pos - initial_string

\* FullRangeStream::range: what remains, as one range.
full_range(s) == s.rem

\* Mutant: reset restores the address and keeps the length.
reset_PtrOnly(s, cp) == [s EXCEPT !.ptr = cp.ptr]

\* clone_resetable!: checkpoint is a clone of the cursor, reset assigns it.
checkpoint(s) == [ptr |-> s.ptr, rem |-> s.rem]

reset(s, cp) == [s EXCEPT !.ptr = cp.ptr, !.rem = cp.rem]

\* split_at(i) followed by "*self = remaining".
split_at(s, i) ==
  [result |-> SubSeq(s.rem, 1, i),
   remaining |-> [s EXCEPT !.ptr = s.ptr + i * UnitSize(s.kind),
                           !.rem = SubSeq(s.rem, i + 1, Len(s.rem))]]

Ok(v, s) == [ok |-> TRUE, val |-> v, err |-> "", s |-> s]
Err(e, s) == [ok |-> FALSE, val |-> <<>>, err |-> e, s |-> s]

\* StreamOnce::uncons of &str, &[T], SliceStream (PartialStream delegates).
str_uncons_some(s, n) == Ok(<<n.c>>, split_at(s, Len(s.rem) - Len(n.rest)).remaining)

\* Mutant: the first item is returned and the cursor stays.
raw_uncons_NoAdvance(s) ==
  IF s.rem = <<>> THEN Err("Eoi", s)
  ELSE IF s.kind = "str" THEN Ok(<<CharsNext(s.rem).c>>, s)
  ELSE Ok(<<s.rem[1]>>, s)

raw_uncons(s) ==
  IF s.rem = <<>> THEN Err("Eoi", s)
  ELSE IF s.kind = "str" THEN str_uncons_some(s, CharsNext(s.rem))
  ELSE Ok(<<s.rem[1]>>, split_at(s, 1).remaining)

\* Mutant: only an ASCII byte starts a scalar.
is_char_boundary_Ascii(bytes, index) ==
  IF index = Len(bytes) THEN TRUE
  ELSE IF index + 1 > Len(bytes) THEN FALSE
  ELSE bytes[index + 1] < 128

\* is_char_boundary, local to <&str>::uncons_range.
is_char_boundary(bytes, index) ==
  IF index = Len(bytes) THEN TRUE
  ELSE IF index + 1 > Len(bytes) THEN FALSE
  ELSE bytes[index + 1] < 128 \/ bytes[index + 1] >= 192

\* Ok(result) with *self = remaining.
OkSplit(sp) == Ok(sp.result, sp.remaining)

\* Mutant: the range is returned but the cursor is not advanced.
raw_uncons_range_NoAdvance(s, size) ==
  IF size > Len(s.rem) THEN Err("Eoi", s)
  ELSE IF s.kind = "str" /\ ~is_char_boundary(s.rem, size)
       THEN Err("CharacterBoundary", s)
  ELSE Ok(split_at(s, size).result, s)

\* Mutant: "size < len" in place of "size <= len".
raw_uncons_range_EndStrict(s, size) ==
  IF size >= Len(s.rem) THEN Err("Eoi", s)
  ELSE IF s.kind = "str" /\ ~is_char_boundary(s.rem, size)
       THEN Err("CharacterBoundary", s)
  ELSE OkSplit(split_at(s, size))

\* Mutant: a size past the end is clamped to what remains.
raw_uncons_range_Clamp(s, size) ==
  IF size > Len(s.rem) THEN OkSplit(split_at(s, Len(s.rem)))
  ELSE IF s.kind = "str" /\ ~is_char_boundary(s.rem, size)
       THEN Err("CharacterBoundary", s)
  ELSE OkSplit(split_at(s, size))

\* RangeStreamOnce::uncons_range.
raw_uncons_range(s, size) ==
  IF size > Len(s.rem) THEN Err("Eoi", s)
  ELSE IF s.kind = "str" /\ ~is_char_boundary(s.rem, size)
       THEN Err("CharacterBoundary", s)
  ELSE OkSplit(split_at(s, size))

\* The loop of str_uncons_while over the Chars iterator: what as_str() has
\* left when the loop breaks, and last_char_size.
RECURSIVE StrScan(_, _)
test_next(n, p) ==
  IF ~Pred(p, n.c)
  THEN [rest |-> Len(n.rest), last_char_size |-> len_utf8(n.c)]
  ELSE StrScan(n.rest, p)

StrScan(chars, p) ==
  IF chars = <<>> THEN [rest |-> 0, last_char_size |-> 0]
  ELSE test_next(CharsNext(chars), p)

\* The end of str_uncons_while: len, split_at(len), *slice = rest.
str_split(s, sc) == split_at(s, Len(s.rem) - sc.rest - sc.last_char_size)

\* str_uncons_while(slice, chars, f).
str_uncons_while(s, chars, p) == str_split(s, StrScan(chars, p))

\* Mutant: the last of the eight checks of a stride is skipped.
RECURSIVE Check8_SkipLast(_, _, _, _)
Check8_SkipLast(items, i, p, k) ==
  IF k = 0 THEN [i |-> i, found |-> FALSE]
  ELSE IF k > 1 /\ ~Pred(p, items[i + 1]) THEN [i |-> i, found |-> TRUE]
  ELSE Check8_SkipLast(items, i + 1, p, k - 1)

\* One pass of the eight check!() of slice_uncons_while, k checks left.
RECURSIVE Check8(_, _, _, _)
Check8(items, i, p, k) ==
  IF k = 0 THEN [i |-> i, found |-> FALSE]
  ELSE IF ~Pred(p, items[i + 1]) THEN [i |-> i, found |-> TRUE]
  ELSE Check8(items, i + 1, p, k - 1)

\* while len - i >= 8 { check!() x 8 }
RECURSIVE Unrolled(_, _, _)
UnrolledNext(items, r, p) == IF r.found THEN r ELSE Unrolled(items, r.i, p)

Unrolled(items, i, p) ==
  IF Len(items) - i >= 8
  THEN UnrolledNext(items, Check8(items, i, p, 8), p)
  ELSE [i |-> i, found |-> FALSE]

\* Mutant: the item that fails the predicate is taken too.
RECURSIVE Remainder_Inclusive(_, _, _)
Remainder_Inclusive(items, i, p) ==
  IF i < Len(items)
  THEN IF ~Pred(p, items[i + 1]) THEN i + 1 ELSE Remainder_Inclusive(items, i + 1, p)
  ELSE i

\* while i < len { if !f(..) { break } i += 1 }
RECURSIVE Remainder(_, _, _)
Remainder(items, i, p) ==
  IF i < Len(items)
  THEN IF ~Pred(p, items[i + 1]) THEN i ELSE Remainder(items, i + 1, p)
  ELSE i

\* Mutant: the item that ended the scan is dropped from what remains.
slice_finish_SkipMismatch(s, u, p) ==
  LET i == IF ~u.found THEN Remainder(s.rem, u.i, p) ELSE u.i
  IN [result |-> split_at(s, i).result,
      remaining |-> split_at(s, IF i < Len(s.rem) THEN i + 1 ELSE i).remaining]

\* if !found { while i < len { .. } }, then split_at(i), *slice = remaining.
slice_finish(s, u, p) ==
  split_at(s, IF ~u.found THEN Remainder(s.rem, u.i, p) ELSE u.i)

\* slice_uncons_while(slice, i, f) and slice_uncons_while_ref.
slice_uncons_while(s, i0, p) == slice_finish(s, Unrolled(s.rem, i0, p), p)

\* RangeStreamOnce::uncons_while.  The three cursors of this file never fail;
\* another implementor of the trait may (fail chooses that outcome).
generic_result(sp, fail) ==
  IF fail THEN Err("Unexpected", sp.remaining) ELSE OkSplit(sp)

raw_uncons_while(s, p, fail) ==
  IF s.kind = "str" THEN OkSplit(str_uncons_while(s, s.rem, p))
  ELSE generic_result(slice_uncons_while(s, 0, p), s.kind = GenericKind /\ fail)

Fast(tag, v, e, s) == [tag |-> tag, val |-> v, err |-> e, s |-> s]

\* ConsumedOk(range) with *self = remaining.
FastSplit(sp) == Fast("ConsumedOk", sp.result, "", sp.remaining)

\* The default RangeStreamOnce::uncons_while1 of the trait, after its call of
\* uncons_while.
\* Mutant: with nothing matched the empty range of uncons_while is returned.
default_match_EmptyOk(consumed, result) ==
  IF consumed
  THEN IF result.ok THEN Fast("ConsumedOk", result.val, "", result.s)
       ELSE Fast("ConsumedErr", <<>>, result.err, result.s)
  ELSE IF result.ok THEN Fast("EmptyOk", result.val, "", result.s)
  ELSE Fast("EmptyErr", <<>>, "Unexpected", result.s)

default_match(consumed, result) ==
  IF consumed
  THEN IF result.ok THEN Fast("ConsumedOk", result.val, "", result.s)
       ELSE Fast("ConsumedErr", <<>>, result.err, result.s)
  ELSE Fast("EmptyErr", <<>>, "Unexpected", result.s)

default_uncons_while1(s, p, fail) ==
  default_match(s.rem # <<>> /\ Pred(p, s.rem[1]), raw_uncons_while(s, p, fail))

\* <&str>::uncons_while1 after chars.next() returned Some(c).
str_while1_some(s, n, p) ==
  IF ~Pred(p, n.c) THEN Fast("EmptyErr", <<>>, "Unexpected", s)
  ELSE FastSplit(str_uncons_while(s, n.rest, p))

\* Mutant: the test of the first item is missing.
raw_uncons_while1_NoFirstCheck(s, p, fail) ==
  IF s.kind = GenericKind THEN default_uncons_while1(s, p, fail)
  ELSE IF s.kind = "str" THEN FastSplit(str_uncons_while(s, s.rem, p))
  ELSE FastSplit(slice_uncons_while(s, 0, p))

\* RangeStreamOnce::uncons_while1 of &str, &[T] and SliceStream.
raw_uncons_while1(s, p, fail) ==
  IF s.kind = GenericKind THEN default_uncons_while1(s, p, fail)
  ELSE IF s.rem = <<>> THEN Fast("EmptyErr", <<>>, "Unexpected", s)
  ELSE IF s.kind = "str" THEN str_while1_some(s, CharsNext(s.rem), p)
  ELSE IF ~Pred(p, s.rem[1]) THEN Fast("EmptyErr", <<>>, "Unexpected", s)
  ELSE FastSplit(slice_uncons_while(s, 1, p))

\* usize arithmetic wraps modulo a power of two; 2^30 stands for the
\* machine's, above every address and length of the model.
UsizeMod == 1073741824

\* a - b on usize with overflow checks off.
wrapping_sub(a, b) == (a - b) % UsizeMod

\* What a - b on usize can give: the difference, and when b is greater a
\* panic (overflow checks on) or the wrapped difference (overflow checks off).
usize_sub(a, b) ==
  IF a >= b THEN {[panic |-> FALSE, val |-> a - b]}
  ELSE {[panic |-> TRUE, val |-> 0], [panic |-> FALSE, val |-> wrapping_sub(a, b)]}

\* Mutant: the distance of every cursor is the difference of the addresses.
distance_ByPointer(s, end) == position(s) - end.ptr

\* Mutant: the distance of every cursor is counted in items.
distance_ByItems(s, end) ==
  Cardinality({k \in DOMAIN end.rem : is_char_boundary(end.rem, k - 1)})
    - Cardinality({k \in DOMAIN s.rem : is_char_boundary(s.rem, k - 1)})

\* RangeStreamOnce::distance.
distance(s, end) ==
  IF s.kind = "str" THEN wrapping_sub(position(s), end.ptr)
  ELSE wrapping_sub(Len(end.rem), Len(s.rem))

\* The outcomes of a call of distance under either setting of the build.
distance_outcomes(s, end) ==
  IF s.kind = "str" THEN usize_sub(position(s), end.ptr)
  ELSE usize_sub(Len(end.rem), Len(s.rem))

\* ------------------------------------------------- outcome-folding functions
\* ParseError::from_error(position, err): the stream error with the position
\* attached; ParseError::empty(position): an error with no message.
from_error(pos, kind) == [kind |-> kind, pos |-> pos]

empty(pos) == [kind |-> "Empty", pos |-> pos]

NoErr == [kind |-> "", pos |-> 0]

\* ParseError::is_unexpected_end_of_input.
is_unexpected_end_of_input(err) == err.kind = "Eoi"

Outcome(tag, v, e, s) == [tag |-> tag, val |-> v, err |-> e, s |-> s]

OkTags == {"EmptyOk", "ConsumedOk"}

\* Mutant: the partial flag is ignored.
wrap_stream_error_NoPartial(s, kind) ==
  Outcome("EmptyErr", <<>>, from_error(position(s), kind), s)

\* wrap_stream_error(input, err).
wrap_stream_error(s, kind) ==
  Outcome(IF is_partial(s) THEN "ConsumedErr" ELSE "EmptyErr", <<>>,
          from_error(position(s), kind), s)

\* The match of the free function uncons on the raw result r.
uncons_match(r) ==
  IF r.ok THEN Outcome("ConsumedOk", r.val, NoErr, r.s)
  ELSE wrap_stream_error(r.s, r.err)

\* The free function uncons(input).
uncons(s) == uncons_match(raw_uncons(s))

\* Mutant: the size == 0 test is missing.
uncons_range_match_NoZero(r, size) ==
  IF ~r.ok THEN wrap_stream_error(r.s, r.err)
  ELSE Outcome("ConsumedOk", r.val, NoErr, r.s)

\* The match of the free function uncons_range on the raw result r.
uncons_range_match(r, size) ==
  IF ~r.ok THEN wrap_stream_error(r.s, r.err)
  ELSE IF size = 0 THEN Outcome("EmptyOk", r.val, NoErr, r.s)
  ELSE Outcome("ConsumedOk", r.val, NoErr, r.s)

\* The free function uncons_range(input, size).
uncons_range(s, size) == uncons_range_match(raw_uncons_range(s, size), size)

\* Mutant: the reset after the probing uncons is missing.
at_eof_NoReset(before, r) == [x |-> (~r.ok /\ r.err = "Eoi"), s |-> r.s]

\* Mutant: any successful uncons counts as end of input.
at_eof_Inverted(before, r) == [x |-> r.ok, s |-> reset(r.s, before)]

\* input_at_eof after "before = checkpoint()" and "uncons()": the comparison
\* with Err(end_of_input) and the reset; the answer and the cursor it leaves.
at_eof(before, r) == [x |-> (~r.ok /\ r.err = "Eoi"), s |-> reset(r.s, before)]

\* input_at_eof(input).
input_at_eof(s) == at_eof(checkpoint(s), raw_uncons(s))

\* ConsumedErr(from_error(input.position(), end_of_input())).
end_of_input_err(s) == Outcome("ConsumedErr", <<>>, from_error(position(s), "Eoi"), s)

\* Mutant: the end-of-input test of the Ok arm is missing.
uncons_while_ok_NoEof(r, eof) ==
  IF Len(r.val) = 0 THEN Outcome("EmptyOk", r.val, NoErr, r.s)
  ELSE Outcome("ConsumedOk", r.val, NoErr, r.s)

\* The Ok(x) arm of uncons_while; eof is what input_at_eof returned.
uncons_while_ok(r, eof) ==
  IF is_partial(r.s) /\ eof.x THEN end_of_input_err(eof.s)
  ELSE IF Len(r.val) = 0 THEN Outcome("EmptyOk", r.val, NoErr, r.s)
  ELSE Outcome("ConsumedOk", r.val, NoErr, r.s)

\* The match of the free function uncons_while on the raw result r.
uncons_while_match(r) ==
  IF ~r.ok THEN wrap_stream_error(r.s, r.err)
  ELSE uncons_while_ok(r, input_at_eof(r.s))

\* The free function uncons_while(input, predicate).
uncons_while(s, p, fail) == uncons_while_match(raw_uncons_while(s, p, fail))

\* Mutant: the EmptyErr arm does not look for end of input.
uncons_while1_arms_NoEofOnEmpty(r, eof) ==
  CASE r.tag = "ConsumedOk" ->
         IF is_partial(r.s) /\ eof.x THEN end_of_input_err(eof.s)
         ELSE Outcome("ConsumedOk", r.val, NoErr, r.s)
    [] r.tag = "EmptyErr" -> Outcome("EmptyErr", <<>>, empty(position(r.s)), r.s)
    [] r.tag = "ConsumedErr" ->
         IF is_partial(r.s) /\ eof.x THEN end_of_input_err(eof.s)
         ELSE wrap_stream_error(r.s, r.err)
    [] OTHER -> Outcome("unreachable", <<>>, NoErr, r.s)

\* The arms of the match of uncons_while1; eof is what input_at_eof returned.
uncons_while1_arms(r, eof) ==
  CASE r.tag = "ConsumedOk" ->
         IF is_partial(r.s) /\ eof.x THEN end_of_input_err(eof.s)
         ELSE Outcome("ConsumedOk", r.val, NoErr, r.s)
    [] r.tag = "EmptyErr" ->
         IF is_partial(r.s) /\ eof.x THEN end_of_input_err(eof.s)
         ELSE Outcome("EmptyErr", <<>>, empty(position(r.s)), r.s)
    [] r.tag = "ConsumedErr" ->
         IF is_partial(r.s) /\ eof.x THEN end_of_input_err(eof.s)
         ELSE wrap_stream_error(r.s, r.err)
    [] OTHER -> Outcome("unreachable", <<>>, NoErr, r.s)

uncons_while1_match(r) == uncons_while1_arms(r, input_at_eof(r.s))

\* The free function uncons_while1(input, predicate).
uncons_while1(s, p, fail) == uncons_while1_match(raw_uncons_while1(s, p, fail))

\* ------------------------------------------------------------------ parsers
\* The parsers decode is run with.  "plain" is uncons_while(digit) followed by
\* uncons and a comparison with ','.  "resumable" is the same grammar with the
\* partial state of a range parser: on a consumed failure of a partial cursor
\* it records the distance scanned and resets the cursor, and when resumed it
\* skips that distance, continues the scan, and takes the whole run as one
\* range.
ParseRes(ok, v, e, s, st) == [ok |-> ok, val |-> v, err |-> e, s |-> s, state |-> st]

ParseErr(o, st) == ParseRes(FALSE, <<>>, o.err, o.s, st)

\* token(','): uncons, then compare.
token_match(range, pos, u, st) ==
  IF u.tag # "ConsumedOk" THEN ParseErr(u, st)
  ELSE IF u.val = <<Comma>> THEN ParseRes(TRUE, <<range, u.val>>, NoErr, u.s, st)
  ELSE ParseRes(FALSE, <<>>, empty(pos), u.s, st)

parse_token(range, s, st) == token_match(range, position(s), uncons(s), st)

\* The token after the range parser returned o.
then_token(o, st) ==
  IF o.tag \in OkTags THEN parse_token(o.val, o.s, st) ELSE ParseErr(o, st)

parse_plain(s, st) == then_token(uncons_while(s, "digit", FALSE), st)

resumable_scan(before, w, st) ==
  IF w.tag = "ConsumedErr"
  THEN ParseRes(FALSE, <<>>, w.err, reset(w.s, before), distance(w.s, before))
  ELSE IF w.tag = "EmptyErr" THEN ParseErr(w, st)
  ELSE then_token(uncons_range(reset(w.s, before), distance(w.s, before)), 0)

parse_resumable(s, st) ==
  IF ~is_partial(s) THEN then_token(uncons_while(s, "digit", FALSE), st)
  ELSE resumable_scan(checkpoint(s),
                      uncons_while(IF st # 0 THEN raw_uncons_range(s, st).s ELSE s,
                                   "digit", FALSE),
                      st)

Parsers == {"plain", "resumable"}

parse_with_state(parser, s, st) ==
  IF parser = "plain" THEN parse_plain(s, st) ELSE parse_resumable(s, st)

\* ------------------------------------------------------------------- decode
DecRes(tag, opt, v, n, e, pr) ==
  [tag |-> tag, opt |-> opt, val |-> v, n |-> n, err |-> e, parse |-> pr]

\* Mutant: the is_partial() test is missing.
decode_match_NoPartial(start, pr) ==
  IF pr.ok THEN DecRes("Ok", "Some", pr.val, distance(pr.s, start), NoErr, pr)
  ELSE IF is_unexpected_end_of_input(pr.err)
       THEN DecRes("Ok", "None", <<>>, distance(pr.s, start), NoErr, pr)
  ELSE DecRes("Err", "None", <<>>, 0, pr.err, pr)

\* Mutant: the incomplete signal reports the whole input as consumed.
decode_match_WholeInput(start, pr) ==
  IF pr.ok THEN DecRes("Ok", "Some", pr.val, distance(pr.s, start), NoErr, pr)
  ELSE IF is_partial(pr.s) /\ is_unexpected_end_of_input(pr.err)
       THEN DecRes("Ok", "None", <<>>, Len(start.rem), NoErr, pr)
  ELSE DecRes("Err", "None", <<>>, 0, pr.err, pr)

\* The match of decode_mut on what parse_with_state returned; start is the
\* checkpoint taken before.
decode_match(start, pr) ==
  IF pr.ok THEN DecRes("Ok", "Some", pr.val, distance(pr.s, start), NoErr, pr)
  ELSE IF is_partial(pr.s) /\ is_unexpected_end_of_input(pr.err)
       THEN DecRes("Ok", "None", <<>>, distance(pr.s, start), NoErr, pr)
  ELSE DecRes("Err", "None", <<>>, 0, pr.err, pr)

\* decode_mut(parser, input, partial_state); decode calls it on its own input.
decode_mut(parser, s, st) == decode_match(checkpoint(s), parse_with_state(parser, s, st))

decode(parser, s, st) == decode_mut(parser, s, st)

\* ------------------------------------------------------------ state machine
VARIABLES
  buf,     \* the original buffer, in units
  input,   \* the live cursor
  cps,     \* the checkpoints the caller holds, by slot
  cnt,     \* per slot: successful uncons calls since the checkpoint was taken,
           \* -1 once anything else has moved the cursor
  last,    \* the last operation: its arguments, the cursor before, its result
  src,     \* the bytes in the buffer the codec adapter is called with
  state    \* the state the codec adapter stores

vars == <<buf, input, cps, cnt, last, src, state>>

NoCp == [ptr |-> 0, rem |-> <<>>]
Slots == 1..MaxCps

InitWith(kinds) ==
  /\ \E kind \in kinds, partial \in BOOLEAN, items \in SeqsUpTo(Alphabet, MaxLen) :
       /\ buf = (IF kind = "str" THEN Encode(items) ELSE items)
       /\ input = MkStream(kind, partial, BaseAddr, buf)
  /\ cps = [i \in Slots |-> NoCp]
  /\ cnt = [i \in Slots |-> -1]
  /\ last = [op |-> "init"]
  /\ src = <<>>
  /\ state = 0

Init == InitWith(Kinds)

InitTrait == InitWith(Kinds \cup {GenericKind})

\* What the raw call inside a free function returned.
RawOf(r) == [ok |-> r.ok, val |-> r.val, err |-> r.err, rem |-> r.s.rem]

RawOfFast(r) ==
  [ok |-> (r.tag = "ConsumedOk"), tag |-> r.tag, val |-> r.val, err |-> r.err,
   rem |-> r.s.rem]

\* A free function was called on the live cursor and returned out.
Step(op, arg, raw, out) ==
  /\ input' = out.s
  /\ last' = [op |-> op, arg |-> arg, pre |-> input, raw |-> raw,
              out |-> [tag |-> out.tag, val |-> out.val, err |-> out.err]]
  /\ cnt' = [i \in Slots |-> IF op = "uncons" /\ cnt[i] >= 0
                             THEN (IF out.tag = "ConsumedOk" THEN cnt[i] + 1 ELSE cnt[i])
                             ELSE -1]
  /\ UNCHANGED <<buf, cps, src, state>>

Uncons == Step("uncons", 0, RawOf(raw_uncons(input)), uncons(input))

UnconsRange(size) ==
  Step("uncons_range", size, RawOf(raw_uncons_range(input, size)),
       uncons_range(input, size))

UnconsWhile(p, fail) ==
  /\ fail => input.kind = GenericKind
  /\ Step("uncons_while", p, RawOf(raw_uncons_while(input, p, fail)),
          uncons_while(input, p, fail))

UnconsWhile1(p, fail) ==
  /\ fail => input.kind = GenericKind
  /\ Step("uncons_while1", p, RawOfFast(raw_uncons_while1(input, p, fail)),
          uncons_while1(input, p, fail))

Checkpoint(i) ==
  /\ cps' = [cps EXCEPT ![i] = checkpoint(input)]
  /\ cnt' = [cnt EXCEPT ![i] = 0]
  /\ last' = [op |-> "checkpoint", arg |-> i, pre |-> input]
  /\ UNCHANGED <<buf, input, src, state>>

Reset(i) ==
  /\ cps[i] # NoCp
  /\ input' = reset(input, cps[i])
  /\ cnt' = [j \in Slots |-> -1]
  /\ last' = [op |-> "reset", arg |-> i, pre |-> input]
  /\ UNCHANGED <<buf, cps, src, state>>

\* decode(parser, input, &mut Default::default()) on a copy of the cursor.
Decode(parser) ==
  /\ last' = [op |-> "decode", arg |-> parser, pre |-> input,
              dec |-> decode(parser, input, 0)]
  /\ UNCHANGED <<buf, input, cps, cnt, src, state>>

\* The second decode of a message fed in two chunks: the unconsumed remainder
\* of chunk 1 followed by chunk 2, with the state the first call left.
SecondDecode(kind, first) ==
  IF first.tag = "Ok" /\ first.opt = "None"
  THEN decode("resumable",
              MkStream(kind, TRUE, BaseAddr + first.n * UnitSize(kind),
                       SubSeq(buf, first.n + 1, Len(buf))),
              first.parse.state)
  ELSE first

TwoChunks(k, first, single) ==
  /\ last' = [op |-> "chunks", arg |-> k, first |-> first,
              second |-> SecondDecode(input.kind, first), single |-> single]
  /\ UNCHANGED <<buf, input, cps, cnt, src, state>>

\* The original buffer is fed to decode as the chunks buf[..k] and buf[k..]
\* over a partial cursor, and once unsplit.
DecodeChunks(k) ==
  /\ input.kind = "str" => is_char_boundary(buf, k)
  /\ TwoChunks(k,
               decode("resumable", MkStream(input.kind, TRUE, BaseAddr, SubSeq(buf, 1, k)), 0),
               decode("resumable", MkStream(input.kind, input.partial, BaseAddr, buf), 0))

Next ==
  \/ Uncons
  \/ \E size \in 0..(Len(input.rem) + 1) : UnconsRange(size)
  \/ \E p \in Preds, fail \in BOOLEAN : UnconsWhile(p, fail)
  \/ \E p \in Preds, fail \in BOOLEAN : UnconsWhile1(p, fail)
  \/ \E i \in Slots : Checkpoint(i)
  \/ \E i \in Slots : Reset(i)
  \/ \E parser \in Parsers : Decode(parser)
  \/ \E k \in 0..Len(buf) : DecodeChunks(k)

Spec == Init /\ [][Next]_vars

SpecTrait == InitTrait /\ [][Next]_vars

\* ------------------------------------------ the element accesses of a scan
\* A scan of a slice in progress: the index i, found, the indices handed to
\* get_unchecked so far, and whether "len - i" was computed with i above len.
StartScan(i) == [i |-> i, found |-> FALSE, reads |-> {}, under |-> FALSE]

\* Mutant: a stride starts with seven items left.
stride_guard_Seven(len, i) == len - i >= 7

\* while len - i >= 8
stride_guard(len, i) == len - i >= 8

\* check!(), k of them left in the stride: get_unchecked(i), the predicate,
\* i += 1.  A read past the end is recorded and ends the scan.
RECURSIVE Check8Reads(_, _, _, _)
Check8Reads(items, t, p, k) ==
  IF k = 0 THEN t
  ELSE IF t.i >= Len(items)
       THEN [t EXCEPT !.reads = @ \cup {t.i}, !.found = TRUE]
  ELSE IF ~Pred(p, items[t.i + 1])
       THEN [t EXCEPT !.reads = @ \cup {t.i}, !.found = TRUE]
  ELSE Check8Reads(items, [t EXCEPT !.reads = @ \cup {t.i}, !.i = @ + 1], p, k - 1)

\* while len - i >= 8 { check!() x 8 }
RECURSIVE UnrolledReads(_, _, _)
UnrolledReadsNext(items, t, p) ==
  IF t.found THEN t ELSE UnrolledReads(items, t, p)

UnrolledReads(items, t, p) ==
  IF t.i > Len(items) THEN [t EXCEPT !.under = TRUE]
  ELSE IF stride_guard(Len(items), t.i)
       THEN UnrolledReadsNext(items, Check8Reads(items, t, p, 8), p)
  ELSE t

\* while i < len { if !f(get_unchecked(i)) { break } i += 1 }
RECURSIVE RemainderReads(_, _, _)
RemainderReads(items, t, p) ==
  IF t.i < Len(items)
  THEN IF ~Pred(p, items[t.i + 1]) THEN [t EXCEPT !.reads = @ \cup {t.i}]
       ELSE RemainderReads(items, [t EXCEPT !.reads = @ \cup {t.i}, !.i = @ + 1], p)
  ELSE t

\* if !found { .. }; t.i is the index of the final split_at.
finish_reads(items, t, p) ==
  IF ~t.found /\ ~t.under THEN RemainderReads(items, t, p) ELSE t

\* The accesses of slice_uncons_while(slice, i, f) and slice_uncons_while_ref.
slice_reads(items, i, p) == finish_reads(items, UnrolledReads(items, StartScan(i), p), p)

\* The access uncons_while1 makes itself, get_unchecked(0), added.
with_first(t) == [t EXCEPT !.reads = @ \cup {0}]

\* The accesses of <&[T]>::uncons_while1 and <SliceStream>::uncons_while1:
\* is_empty() || !f(get_unchecked(0)), then the scan from index 1.
while1_reads(items, p) ==
  IF items = <<>> THEN StartScan(0)
  ELSE IF ~Pred(p, items[1]) THEN with_first(StartScan(0))
  ELSE with_first(slice_reads(items, 1, p))

\* ------------------------------------------------- the scans on long inputs
\* Longest input of a scan: two strides of eight after the first item.
ScanLen == 17

ScanPreds == {"digit", "wide", "all", "none"}

\* At most two places of an input of length n.
OddSets(n) == {{}} \cup {{i, j} : i \in 1..n, j \in 1..n}

\* Inputs of a scan: up to ScanLen items, all alike but for at most two.
ScanInputs ==
  UNION {{[k \in 1..n |-> IF k \in odd THEN ab[1] ELSE ab[2]] :
            odd \in OddSets(n), ab \in {<<Digit1, EAcute>>, <<EAcute, Digit1>>}} :
         n \in 0..ScanLen}

InitScan ==
  /\ \E kind \in Kinds, items \in ScanInputs :
       /\ buf = (IF kind = "str" THEN Encode(items) ELSE items)
       /\ input = MkStream(kind, FALSE, BaseAddr, buf)
  /\ cps = [i \in Slots |-> NoCp]
  /\ cnt = [i \in Slots |-> -1]
  /\ last = [op |-> "init"]
  /\ src = <<>>
  /\ state = 0

\* One call of uncons_while or uncons_while1 on a fresh input.
ScanWhile(p) == last.op = "init" /\ UnconsWhile(p, FALSE)

ScanWhile1(p) == last.op = "init" /\ UnconsWhile1(p, FALSE)

NextScan ==
  \/ \E p \in ScanPreds : ScanWhile(p)
  \/ \E p \in ScanPreds : ScanWhile1(p)

SpecScan == InitScan /\ [][NextScan]_vars

\* ------------------------------------------- several checkpoints of a cursor
\* Checkpoints a caller of this part holds at the same time.
LineageCps == 2

LineageSlots == 1..LineageCps

InitLineage ==
  /\ \E kind \in Kinds, items \in SeqsUpTo(Alphabet, MaxLen) :
       /\ buf = (IF kind = "str" THEN Encode(items) ELSE items)
       /\ input = MkStream(kind, FALSE, BaseAddr, buf)
  /\ cps = [i \in LineageSlots |-> NoCp]
  /\ cnt = [i \in Slots |-> -1]
  /\ last = [op |-> "init"]
  /\ src = <<>>
  /\ state = 0

\* checkpoint() into slot i.
TakeCheckpoint(i) ==
  /\ cps' = [cps EXCEPT ![i] = checkpoint(input)]
  /\ last' = [op |-> "checkpoint", arg |-> i, pre |-> input]
  /\ UNCHANGED <<buf, input, cnt, src, state>>

\* reset(cps[i]).
ResetTo(i) ==
  /\ cps[i] # NoCp
  /\ input' = reset(input, cps[i])
  /\ last' = [op |-> "reset", arg |-> i, pre |-> input]
  /\ UNCHANGED <<buf, cps, cnt, src, state>>

\* distance(&cps[i]) returned, or panicked.
Distance(i) ==
  /\ cps[i] # NoCp
  /\ \E o \in distance_outcomes(input, cps[i]) :
       last' = [op |-> "distance", arg |-> i, pre |-> input, out |-> o]
  /\ UNCHANGED <<buf, input, cps, cnt, src, state>>

NextLineage ==
  \/ Uncons
  \/ \E i \in LineageSlots : TakeCheckpoint(i)
  \/ \E i \in LineageSlots : ResetTo(i)
  \/ \E i \in LineageSlots : Distance(i)

SpecLineage == InitLineage /\ [][NextLineage]_vars

\* ------------------------------------------------------- the codec adapter
\* Longest buffer the adapter is called with.
CodecLen == 4
\* The values of the state S the adapter stores; 0 is Default::default().
CodecStates == 0..2
CodecBytes == {Digit1, Comma}

\* What the parser function F returned and the state it left behind its
\* &mut S: Ok((opt, n)) or Err.
FnResult(tag, opt, n, st) == [tag |-> tag, opt |-> opt, n |-> n, state |-> st]

\* Every result a parser function can give for the input bytes: a count is
\* the number of bytes it consumed of that input.
FnResults(bytes) ==
  {FnResult("Ok", opt, n, st) :
     opt \in {"Some", "None"}, n \in 0..Len(bytes), st \in CodecStates}
    \cup {FnResult("Err", "None", 0, st) : st \in CodecStates}

\* BytesMut::split_to(at): the buffer keeps what follows its first at bytes.
split_to(bytes, at) == SubSeq(bytes, at + 1, Len(bytes))

\* Mutant: the buffer is advanced only when a value was produced.
Decoder_decode_SomeOnly(bytes, r) ==
  IF r.tag = "Err" THEN [ret |-> "Err", opt |-> "None", src |-> bytes]
  ELSE IF r.opt = "None" THEN [ret |-> "Ok", opt |-> r.opt, src |-> bytes]
  ELSE [ret |-> "Ok", opt |-> r.opt, src |-> split_to(bytes, r.n)]

\* Decoder::decode after the parser function returned r: "?" hands an error
\* on, otherwise src.split_to(removed_len) and Ok(opt).
Decoder_decode(bytes, r) ==
  IF r.tag = "Err" THEN [ret |-> "Err", opt |-> "None", src |-> bytes]
  ELSE [ret |-> "Ok", opt |-> r.opt, src |-> split_to(bytes, r.n)]

\* Decoder::new: state is Default::default(); the buffer starts empty.
InitCodec ==
  /\ src = <<>>
  /\ state = 0
  /\ buf = <<>>
  /\ input = MkStream("slice", TRUE, BaseAddr, <<>>)
  /\ cps = [i \in Slots |-> NoCp]
  /\ cnt = [i \in Slots |-> -1]
  /\ last = [op |-> "init"]

\* The framework appends the bytes it read to the buffer.
Feed(bytes) ==
  /\ Len(src) + Len(bytes) <= CodecLen
  /\ src' = src \o bytes
  /\ last' = [op |-> "feed", arg |-> bytes]
  /\ UNCHANGED <<buf, input, cps, cnt, state>>

\* One call of Decoder::decode: (self.parser)(&src[..], &mut self.state)
\* returned r.
CallDecoder(r, d) ==
  /\ src' = d.src
  /\ state' = r.state
  /\ last' = [op |-> "codec", src |-> src, st_in |-> state, r |-> r, ret |-> d]
  /\ UNCHANGED <<buf, input, cps, cnt>>

DecoderDecode == \E r \in FnResults(src) : CallDecoder(r, Decoder_decode(src, r))

NextCodec ==
  \/ \E bytes \in SeqsUpTo(CodecBytes, 2) \ {<<>>} : Feed(bytes)
  \/ DecoderDecode

SpecCodec == InitCodec /\ [][NextCodec]_vars

\* ------------------------------------------------------------------- claims
FreeOps == {"uncons", "uncons_range", "uncons_while", "uncons_while1"}
ConsumedTags == {"ConsumedOk", "ConsumedErr"}
EmptyTags == {"EmptyOk", "EmptyErr"}

IsFreeOp == last.op \in FreeOps

\* Units the last free function advanced the cursor by.
Advanced == Len(last.pre.rem) - Len(input.rem)

\* The items of a cursor's remaining input (decoded scalars for text).
RECURSIVE Scalars(_)
Scalars(bytes) ==
  IF bytes = <<>> THEN <<>>
  ELSE <<CharsNext(bytes).c>> \o Scalars(CharsNext(bytes).rest)

Items(s) == IF s.kind = "str" THEN Scalars(s.rem) ELSE s.rem

AllMatch(s, p) == \A k \in 1..Len(Items(s)) : Pred(p, Items(s)[k])

\* C1 as stated: every free function reports a consumed variant when it
\* advanced the cursor by at least one unit and a not-consumed variant when
\* it advanced it by zero units, on partial and non-partial cursors alike.
C1_Original ==
  IsFreeOp =>
    /\ Advanced >= 1 => last.out.tag \in ConsumedTags
    /\ Advanced = 0 => last.out.tag \in EmptyTags

\* C1 amended: an advance of at least one unit is always reported consumed;
\* an advance of zero units is reported not-consumed on a non-partial cursor
\* and on every success; on a partial cursor a failure that advanced nothing
\* is ConsumedErr, except the mismatch of uncons_while1 away from end of
\* input, which stays EmptyErr.
C1_ConsumedBit ==
  IsFreeOp =>
    /\ Advanced >= 1 => last.out.tag \in ConsumedTags
    /\ (Advanced = 0 /\ ~is_partial(input)) => last.out.tag \in EmptyTags
    /\ (Advanced = 0 /\ last.out.tag \in OkTags) => last.out.tag = "EmptyOk"
    /\ (Advanced = 0 /\ is_partial(input) /\ last.out.tag = "EmptyErr") =>
         (last.op = "uncons_while1" /\ input.rem # <<>>)
    /\ (Advanced = 0 /\ is_partial(input) /\ last.out.tag \notin OkTags
          /\ ~(last.op = "uncons_while1" /\ input.rem # <<>>)) =>
         last.out.tag = "ConsumedErr"

\* A partial cursor failed without advancing and was reported consumed.
C1_Witness ==
  /\ IsFreeOp /\ is_partial(input) /\ Advanced = 0
  /\ last.out.tag = "ConsumedErr"

\* C2: a raw failure inside uncons, uncons_range or uncons_while comes back
\* with the cursor's current position attached, as ConsumedErr on a partial
\* cursor and as EmptyErr on a non-partial one; uncons on an empty
\* non-partial cursor is a not-consumed failure.
C2_WrapRule ==
  (last.op \in {"uncons", "uncons_range", "uncons_while"} /\ ~last.raw.ok) =>
    /\ last.out.tag = (IF is_partial(input) THEN "ConsumedErr" ELSE "EmptyErr")
    /\ last.out.err = [kind |-> last.raw.err, pos |-> position(input)]
    /\ (last.op = "uncons" /\ ~is_partial(input)) =>
         (last.pre.rem = <<>> /\ last.out.tag = "EmptyErr" /\ last.out.err.kind = "Eoi")

C2_Witness ==
  /\ last.op = "uncons" /\ ~last.raw.ok /\ ~is_partial(input)
  /\ last.pre.rem = <<>> /\ last.out.tag = "EmptyErr"

\* C3 as stated: when every remaining item satisfies the predicate,
\* uncons_while returns ConsumedErr with EndOfInput on a partial cursor and
\* ConsumedOk with the whole buffer on a non-partial one.
C3_Original ==
  (last.op = "uncons_while" /\ last.raw.ok /\ AllMatch(last.pre, last.arg)) =>
    /\ is_partial(input) =>
         (last.out.tag = "ConsumedErr" /\ last.out.err.kind = "Eoi")
    /\ ~is_partial(input) =>
         (last.out.tag = "ConsumedOk" /\ last.out.val = last.pre.rem)

\* C3 amended: as stated when the remaining input is non-empty; on an empty
\* non-partial cursor the result is EmptyOk with the empty range.
C3_RunToEnd ==
  (last.op = "uncons_while" /\ last.raw.ok /\ AllMatch(last.pre, last.arg)) =>
    /\ is_partial(input) =>
         (last.out.tag = "ConsumedErr" /\ last.out.err.kind = "Eoi")
    /\ (~is_partial(input) /\ last.pre.rem # <<>>) =>
         (last.out.tag = "ConsumedOk" /\ last.out.val = last.pre.rem
            /\ input.rem = <<>>)
    /\ (~is_partial(input) /\ last.pre.rem = <<>>) =>
         (last.out.tag = "EmptyOk" /\ last.out.val = <<>>)

C3_Witness ==
  /\ last.op = "uncons_while" /\ AllMatch(last.pre, last.arg)
  /\ is_partial(input) /\ Len(Items(last.pre)) >= 2
  /\ last.out.tag = "ConsumedErr"

\* C4 as stated: for uncons_while and uncons_while1, a partial cursor that is
\* at end of input after the raw call gives ConsumedErr with EndOfInput,
\* whether the raw call succeeded or failed.
C4_Original ==
  (last.op \in {"uncons_while", "uncons_while1"} /\ is_partial(input)
     /\ last.raw.rem = <<>>) =>
    (last.out.tag = "ConsumedErr" /\ last.out.err.kind = "Eoi")

\* C4 amended: uncons_while1 overrides in all its arms; uncons_while overrides
\* only a raw success, and passes a raw failure through wrap_stream_error:
\* ConsumedErr carrying the raw error and the current position.
C4_EofOverride ==
  (last.op \in {"uncons_while", "uncons_while1"} /\ is_partial(input)
     /\ last.raw.rem = <<>>) =>
    /\ last.out.tag = "ConsumedErr"
    /\ (last.op = "uncons_while1" \/ last.raw.ok) => last.out.err.kind = "Eoi"
    /\ (last.op = "uncons_while" /\ ~last.raw.ok) =>
         last.out.err = [kind |-> last.raw.err, pos |-> position(input)]
    /\ last.out.err.pos = position(input)

\* uncons_while1 on a partial cursor: the raw call failed at end of input and
\* the failure was overridden.
C4_Witness ==
  /\ last.op = "uncons_while1" /\ is_partial(input) /\ last.raw.rem = <<>>
  /\ ~last.raw.ok /\ last.out.tag = "ConsumedErr" /\ last.out.err.kind = "Eoi"

\* The cursor as it was when checkpoint cp was taken.
Captured(cp) == MkStream(input.kind, input.partial, cp.ptr, cp.rem)

\* A message of the grammar "digits, then a comma".
ValidMessage(items) ==
  /\ Len(items) >= 1
  /\ items[Len(items)] = Comma
  /\ \A k \in 1..(Len(items) - 1) : Pred("digit", items[k])

RECURSIVE Utf8Len(_)
Utf8Len(cs) == IF cs = <<>> THEN 0 ELSE len_utf8(Head(cs)) + Utf8Len(Tail(cs))

\* Whether the parse of the last decode failed with end of input on a partial
\* cursor.
PartialEoi ==
  /\ ~last.dec.parse.ok
  /\ is_partial(last.pre)
  /\ last.dec.parse.err.kind = "Eoi"

\* C5: decode returns Ok((Some(value), n)) exactly when the parse succeeds,
\* Ok((None, n)) exactly when the parse fails with end of input on a partial
\* cursor, and Err for every other failure.
C5_DecodeResult ==
  last.op = "decode" =>
    /\ (last.dec.tag = "Ok" /\ last.dec.opt = "Some") <=> last.dec.parse.ok
    /\ last.dec.parse.ok => last.dec.val = last.dec.parse.val
    /\ (last.dec.tag = "Ok" /\ last.dec.opt = "None") <=> PartialEoi
    /\ last.dec.tag = "Err" <=> (~last.dec.parse.ok /\ ~PartialEoi)
    /\ last.dec.tag = "Err" => last.dec.err = last.dec.parse.err

\* End of input on a non-partial cursor is a terminal error.
C5_Witness ==
  /\ last.op = "decode" /\ ~is_partial(last.pre)
  /\ ~last.dec.parse.ok /\ last.dec.parse.err.kind = "Eoi"
  /\ last.dec.tag = "Err"

\* C6: in the completed and in the incomplete case the count decode returns
\* is the distance from the entry checkpoint to the cursor the parse left,
\* the units this call consumed, and is at most the units supplied.
C6_DecodeCount ==
  (last.op = "decode" /\ last.dec.tag = "Ok") =>
    /\ last.dec.n = distance(last.dec.parse.s, checkpoint(last.pre))
    /\ last.dec.n = Len(last.pre.rem) - Len(last.dec.parse.s.rem)
    /\ last.dec.parse.s.rem =
         SubSeq(last.pre.rem, last.dec.n + 1, Len(last.pre.rem))
    /\ last.dec.n >= 0
    /\ last.dec.n <= Len(last.pre.rem)

\* An incomplete signal that reports part of a longer input as consumed.
C6_Witness ==
  /\ last.op = "decode" /\ last.dec.tag = "Ok" /\ last.dec.opt = "None"
  /\ last.dec.n >= 1 /\ last.dec.n < Len(buf)

C8_ResetRestores ==
  /\ [](last.op = "reset" =>
          /\ input = Captured(cps[last.arg])
          /\ reset(input, cps[last.arg]) = input
          /\ uncons(input) = uncons(Captured(cps[last.arg]))
          /\ \A n \in 0..(Len(input.rem) + 1) :
               uncons_range(input, n) = uncons_range(Captured(cps[last.arg]), n)
          /\ \A p \in Preds :
               /\ uncons_while(input, p, FALSE) = uncons_while(Captured(cps[last.arg]), p, FALSE)
               /\ uncons_while1(input, p, FALSE) = uncons_while1(Captured(cps[last.arg]), p, FALSE))
  /\ [][/\ last'.op = "checkpoint" => cps'[last'.arg] = [ptr |-> input.ptr, rem |-> input.rem]
        /\ \A i \in Slots :
             (cps[i] # NoCp /\ ~(last'.op = "checkpoint" /\ last'.arg = i)) =>
               cps'[i] = cps[i]]_vars

\* A reset that undid a consumption of at least two units.
C8_Witness ==
  /\ last.op = "reset"
  /\ Len(input.rem) >= Len(last.pre.rem) + 2

\* C9: with checkpoint C taken immediately before a successful
\* uncons_range(L), distance(C) is L after the take, and distance(C) is 0
\* after reset(C).
C9_RangeDistance ==
  /\ (last.op = "uncons_range" /\ last.out.tag \in OkTags) =>
       \A i \in Slots :
         cps[i] = checkpoint(last.pre) => distance(input, cps[i]) = last.arg
  /\ last.op = "reset" => distance(input, cps[last.arg]) = 0

C9_Witness ==
  /\ last.op = "uncons_range" /\ last.out.tag = "ConsumedOk" /\ last.arg >= 2
  /\ \E i \in Slots : cps[i] = checkpoint(last.pre)

\* C10 as stated: after k successful uncons calls following checkpoint C,
\* distance(C) is k, whatever the number of bytes of each item.
C10_Original ==
  \A i \in Slots : cnt[i] >= 0 => distance(input, cps[i]) = cnt[i]

\* C10 amended: distance(C) is k for the item-slice and SliceStream cursors,
\* whatever the size of an element; for a text cursor it is the number of
\* bytes of the k scalars consumed.
C10_ItemDistance ==
  \A i \in Slots :
    cnt[i] >= 0 =>
      /\ input.kind # "str" => distance(input, cps[i]) = cnt[i]
      /\ input.kind = "str" =>
           distance(input, cps[i]) =
             Utf8Len(SubSeq(Scalars(cps[i].rem), 1, cnt[i]))

\* Two elements of four bytes each were taken from a slice.
C10_Witness ==
  \E i \in Slots :
    /\ cnt[i] >= 2 /\ input.kind = "slice"
    /\ position(input) - cps[i].ptr = cnt[i] * ElemSize

\* The items of a range a cursor of the given kind returned.
ItemsOf(kind, units) == IF kind = "str" THEN Scalars(units) ELSE units

\* The length of the leading run of items that satisfy p, by a plain scan.
RECURSIVE PlainScan(_, _)
PlainScan(items, p) ==
  IF items = <<>> THEN 0
  ELSE IF ~Pred(p, Head(items)) THEN 0
  ELSE 1 + PlainScan(Tail(items), p)

\* C11: uncons_range with size 0 returns EmptyOk with an empty range and
\* leaves the cursor unchanged, on every cursor, partial or not, also when the
\* cursor is already at end of input.
C11_ZeroRange ==
  (last.op = "uncons_range" /\ last.arg = 0) =>
    /\ last.raw.ok
    /\ last.out.tag = "EmptyOk"
    /\ last.out.val = <<>>
    /\ input = last.pre

\* Size 0 on a partial cursor that is at end of input.
C11_Witness ==
  /\ last.op = "uncons_range" /\ last.arg = 0
  /\ is_partial(input) /\ last.pre.rem = <<>> /\ Len(buf) >= 1
  /\ last.out.tag = "EmptyOk"

\* C12: uncons_range(size) with size greater than the remaining length fails
\* with EndOfInput and leaves the cursor unmodified; with size equal to the
\* remaining length it succeeds, returns the whole remaining input and leaves
\* the cursor empty.
C12_RangeAtEnd ==
  last.op = "uncons_range" =>
    /\ last.arg > Len(last.pre.rem) =>
         /\ ~last.raw.ok /\ last.raw.err = "Eoi"
         /\ last.out.tag \notin OkTags
         /\ last.out.err.kind = "Eoi"
         /\ input = last.pre
    /\ last.arg = Len(last.pre.rem) =>
         /\ last.raw.ok /\ last.out.tag \in OkTags
         /\ last.out.val = last.pre.rem
         /\ input.rem = <<>>
         /\ position(input) = position(last.pre) + last.arg * UnitSize(input.kind)

\* One unit more than a non-empty SliceStream holds.
C12_Witness ==
  /\ last.op = "uncons_range" /\ last.pre.kind = "SliceStream"
  /\ last.pre.rem # <<>> /\ last.arg = Len(last.pre.rem) + 1
  /\ last.out.err.kind = "Eoi"

\* The byte offsets, counted from off, at which the scalars of bytes start.
RECURSIVE ScalarStarts(_, _)
ScalarStarts(bytes, off) ==
  IF bytes = <<>> THEN {}
  ELSE {off} \cup ScalarStarts(CharsNext(bytes).rest, off + LeadWidth(bytes[1]))

\* C13: on a text cursor uncons_range(size), size at most the remaining byte
\* length, succeeds exactly when size is 0, the remaining length or the byte
\* offset of the start of a scalar; otherwise it fails with the
\* character-boundary error and leaves the cursor unmodified.
C13_CharBoundary ==
  (last.op = "uncons_range" /\ last.pre.kind = "str"
     /\ last.arg <= Len(last.pre.rem)) =>
    /\ last.raw.ok <=>
         (\/ last.arg = 0
          \/ last.arg = Len(last.pre.rem)
          \/ last.arg \in ScalarStarts(last.pre.rem, 0))
    /\ last.raw.ok =>
         /\ last.out.val = SubSeq(last.pre.rem, 1, last.arg)
         /\ input.rem = SubSeq(last.pre.rem, last.arg + 1, Len(last.pre.rem))
    /\ ~last.raw.ok =>
         /\ last.raw.err = "CharacterBoundary"
         /\ last.out.err.kind = "CharacterBoundary"
         /\ input = last.pre

\* A size that falls between the two bytes of U+00E9, after a first scalar.
C13_Witness ==
  /\ last.op = "uncons_range" /\ last.pre.kind = "str" /\ last.arg >= 2
  /\ last.arg < Len(last.pre.rem)
  /\ last.out.err.kind = "CharacterBoundary"

\* uncons_while1 was called and no leading item satisfies the predicate.
ZeroMatch ==
  /\ last.op = "uncons_while1"
  /\ PlainScan(Items(last.pre), last.arg) = 0

\* C14 as stated: uncons_while1 with a predicate that matches zero leading
\* items (the first item fails it, or the input is empty) returns EmptyErr and
\* leaves the cursor unmodified.
C14_Original ==
  ZeroMatch => (last.out.tag = "EmptyErr" /\ input = last.pre)

\* C14 amended: the cursor is left unmodified; the result is EmptyErr, except
\* on a partial cursor whose input is empty, where it is ConsumedErr with
\* EndOfInput at the current position.
C14_NoMatch ==
  ZeroMatch =>
    /\ input = last.pre
    /\ last.raw.tag = "EmptyErr"
    /\ (is_partial(input) /\ last.pre.rem = <<>>) =>
         /\ last.out.tag = "ConsumedErr"
         /\ last.out.err = [kind |-> "Eoi", pos |-> position(input)]
    /\ ~(is_partial(input) /\ last.pre.rem = <<>>) =>
         /\ last.out.tag = "EmptyErr"
         /\ last.out.err = empty(position(input))

\* The first scalar of a partial text cursor, U+00E9, fails the predicate.
C14_Witness ==
  /\ ZeroMatch /\ is_partial(input) /\ last.pre.kind = "str"
  /\ last.pre.rem # <<>> /\ Items(last.pre)[1] = EAcute
  /\ last.out.tag = "EmptyErr"

\* uncons_while1 was called on a leading run of k >= 1 matching items that a
\* non-matching item ends, and the cursor's own uncons_while1 did not fail.
RunEnded ==
  /\ last.op = "uncons_while1"
  /\ PlainScan(Items(last.pre), last.arg) >= 1
  /\ PlainScan(Items(last.pre), last.arg) < Len(Items(last.pre))
  /\ last.raw.tag # "ConsumedErr"

\* The result is ConsumedOk with exactly the k items of the run, and the
\* cursor stands at the first non-matching item.
RunTaken ==
  /\ last.out.tag = "ConsumedOk"
  /\ ItemsOf(last.pre.kind, last.out.val) =
       SubSeq(Items(last.pre), 1, PlainScan(Items(last.pre), last.arg))
  /\ Items(input) =
       SubSeq(Items(last.pre), PlainScan(Items(last.pre), last.arg) + 1,
              Len(Items(last.pre)))
  /\ ~Pred(last.arg, Items(input)[1])

FirstWidth ==
  IF last.pre.kind = "str" THEN len_utf8(Items(last.pre)[1]) ELSE 1

\* C17: uncons on a non-empty cursor returns the first remaining item and
\* advances the cursor by exactly that item, so the k-th of k successive
\* successful calls yields the k-th item and leaves the suffix after the
\* first k items; on an empty cursor uncons fails with EndOfInput and leaves
\* the cursor unchanged.
C17_Uncons ==
  /\ (last.op = "uncons" /\ last.pre.rem # <<>>) =>
       /\ last.raw.ok /\ last.out.tag = "ConsumedOk"
       /\ last.out.val = <<Items(last.pre)[1]>>
       /\ Items(input) = Tail(Items(last.pre))
       /\ Advanced = FirstWidth
       /\ input.rem = SubSeq(last.pre.rem, FirstWidth + 1, Len(last.pre.rem))
       /\ position(input) = position(last.pre) + FirstWidth * UnitSize(input.kind)
  /\ (last.op = "uncons" /\ last.pre.rem = <<>>) =>
       /\ ~last.raw.ok /\ last.raw.err = "Eoi"
       /\ last.out.tag \notin OkTags /\ last.out.err.kind = "Eoi"
       /\ input = last.pre
  /\ \A i \in Slots :
       cnt[i] >= 1 =>
         /\ Items(input) =
              SubSeq(Items(Captured(cps[i])), cnt[i] + 1, Len(Items(Captured(cps[i]))))
         /\ (last.op = "uncons" /\ last.out.tag = "ConsumedOk") =>
              last.out.val = <<Items(Captured(cps[i]))[cnt[i]]>>

\* The third of three successive calls on a text cursor yields U+00E9 and
\* empties the cursor.
C17_Witness ==
  /\ last.op = "uncons" /\ input.kind = "str" /\ input.rem = <<>>
  /\ last.out.val = <<EAcute>>
  /\ \E i \in Slots : cnt[i] = 3

\* The results of a raw call on the wrapper and on the cursor it wraps agree,
\* and the wrapper's field is left as the unwrapped cursor is.
SameRaw(rp, rs) ==
  /\ rp.ok = rs.ok /\ rp.val = rs.val /\ rp.err = rs.err
  /\ is_partial(rp.s) /\ inner(rp.s) = rs.s

SameFast(rp, rs) ==
  /\ rp.tag = rs.tag /\ rp.val = rs.val /\ rp.err = rs.err
  /\ is_partial(rp.s) /\ inner(rp.s) = rs.s

C20_Original ==
  /\ translate_position(position(input), BaseAddr) = Len(buf) - Len(input.rem)
  /\ translate_position(position(input), BaseAddr) =
       distance(input, [ptr |-> BaseAddr, rem |-> buf])

\* What the code computes: the offset in bytes, the number of units consumed
\* times the size of a unit.
C20_ByteOffset ==
  translate_position(position(input), BaseAddr) =
    (Len(buf) - Len(input.rem)) * UnitSize(input.kind)

\* C16: uncons_while on a text, item-slice or SliceStream cursor never fails
\* at the raw level and returns exactly the maximal leading run of items that
\* satisfy the predicate, as the plain item-by-item scan finds it, leaving the
\* cursor at the first non-matching item or at the end; for every length, also
\* where the unrolled loop of eight runs and a mismatch falls inside a stride,
\* and for text with two-byte scalars.
C16_MaximalRun ==
  last.op = "uncons_while" =>
    /\ last.raw.ok
    /\ ItemsOf(last.pre.kind, last.raw.val) =
         SubSeq(Items(last.pre), 1, PlainScan(Items(last.pre), last.arg))
    /\ Items(input) =
         SubSeq(Items(last.pre), PlainScan(Items(last.pre), last.arg) + 1,
                Len(Items(last.pre)))
    /\ last.raw.val \o input.rem = last.pre.rem
    /\ input.rem = last.raw.rem
    /\ position(input) =
         position(last.pre) + Len(last.raw.val) * UnitSize(input.kind)
    /\ (input.rem = <<>> \/ ~Pred(last.arg, Items(input)[1]))
    /\ last.out.val = last.raw.val
    /\ last.out.tag = (IF last.raw.val = <<>> THEN "EmptyOk" ELSE "ConsumedOk")

\* Eleven matching items of a slice of sixteen or more: the mismatch is the
\* fourth check of the second stride.
C16_Witness ==
  /\ last.op = "uncons_while" /\ last.pre.kind = "slice"
  /\ Len(last.pre.rem) >= 16
  /\ PlainScan(Items(last.pre), last.arg) = 11
  /\ Len(last.raw.val) = 11

AtOrAfter(cp) == cp # NoCp /\ Len(input.rem) <= Len(cp.rem)

\* The units consumed since checkpoint cp was taken.
ConsumedSince(cp) == SubSeq(cp.rem, 1, Len(cp.rem) - Len(input.rem))

\* C21: with checkpoint C taken and consumptions after it, d = distance(C)
\* is such that reset(C) followed by uncons_range(d) succeeds, returns exactly
\* the items consumed since C, and leaves the cursor as it was before the
\* reset.
C21_Recognize ==
  \A i \in Slots :
    AtOrAfter(cps[i]) =>
      /\ raw_uncons_range(reset(input, cps[i]), distance(input, cps[i])).ok
      /\ uncons_range(reset(input, cps[i]), distance(input, cps[i])).tag \in OkTags
      /\ uncons_range(reset(input, cps[i]), distance(input, cps[i])).val =
           ConsumedSince(cps[i])
      /\ uncons_range(reset(input, cps[i]), distance(input, cps[i])).s = input

\* A text cursor that consumed U+00E9 and one more scalar since C.
C21_Witness ==
  \E i \in Slots :
    /\ AtOrAfter(cps[i]) /\ input.kind = "str"
    /\ Len(ConsumedSince(cps[i])) >= 3
    /\ EAcute \in {Scalars(ConsumedSince(cps[i]))[k] : k \in 1..2}
    /\ uncons_range(reset(input, cps[i]), distance(input, cps[i])).tag = "ConsumedOk"

\* The units between the place checkpoint cp was taken at and the cursor.
UnitsBetween(cp) ==
  IF Len(input.rem) <= Len(cp.rem) THEN Len(cp.rem) - Len(input.rem)
  ELSE Len(input.rem) - Len(cp.rem)

C22_AtOrAfter ==
  (last.op = "distance" /\ AtOrAfter(cps[last.arg])) =>
    /\ ~last.out.panic
    /\ last.out.val = Len(ConsumedSince(cps[last.arg]))
    /\ last.out.val = distance(input, cps[last.arg])

LastReads ==
  IF last.op = "uncons_while" THEN slice_reads(last.pre.rem, 0, last.arg)
  ELSE while1_reads(last.pre.rem, last.arg)

\* C23: in the slice scans (slice_uncons_while, slice_uncons_while_ref and the
\* first-item check of uncons_while1) every unchecked element access uses an
\* index below the slice length, the guard len - i never underflows, and the
\* final split index is at most the slice length; for every length, both
\* starting indices and every predicate.
C23_ScanBounds ==
  (last.op \in {"uncons_while", "uncons_while1"} /\ last.pre.kind # "str") =>
    /\ \A r \in LastReads.reads : r >= 0 /\ r < Len(last.pre.rem)
    /\ ~LastReads.under
    /\ LastReads.i <= Len(last.pre.rem)
    /\ LastReads.i = Len(last.raw.val)
    /\ LastReads.i = Len(last.pre.rem) - Len(input.rem)

\* uncons_while1 on seventeen matching items: the first-item check and two
\* full strides read every element exactly up to the last.
C23_Witness ==
  /\ last.op = "uncons_while1" /\ last.pre.kind = "SliceStream"
  /\ Len(last.pre.rem) = 17
  /\ LastReads.reads = 0..16
  /\ LastReads.i = 17

\* C24: the uncons_while1 of every cursor (the trait default, the text,
\* item-slice and SliceStream overrides, the PartialStream delegation) never
\* returns EmptyOk, so the unreachable!() arm of the free function is never
\* executed and the free function never returns EmptyOk; a ConsumedOk range
\* holds at least one item.
C24_NeverEmptyOk ==
  last.op = "uncons_while1" =>
    /\ last.raw.tag \in {"ConsumedOk", "EmptyErr", "ConsumedErr"}
    /\ last.raw.tag = "ConsumedOk" => last.raw.val # <<>>
    /\ last.out.tag \in {"ConsumedOk", "EmptyErr", "ConsumedErr"}
    /\ last.out.tag = "ConsumedOk" => last.out.val # <<>>

\* The trait default on a wrapped cursor with nothing matched.
C24_Witness ==
  /\ last.op = "uncons_while1" /\ last.pre.kind = GenericKind
  /\ is_partial(input) /\ last.pre.rem # <<>>
  /\ last.raw.tag = "EmptyErr" /\ last.out.tag = "EmptyErr"

\* uncons_while or uncons_while1 succeeded at the raw level on a partial
\* cursor and left it at end of input.
RawOkAtEof ==
  /\ last.op \in {"uncons_while", "uncons_while1"}
  /\ is_partial(input) /\ last.raw.ok /\ last.raw.rem = <<>>

\* C25: when uncons_while or uncons_while1 on a partial cursor overrides a
\* successful raw result with the end-of-input failure, the cursor is not
\* restored: it stays at end of input with the matched items consumed, the
\* error carries the end-of-input position, and the distance from a
\* checkpoint taken before the call is the full number of units that were
\* remaining, which decode reports in its incomplete signal; input_at_eof
\* itself leaves the cursor as it found it.
C25_NotRestored ==
  /\ RawOkAtEof =>
       /\ last.out.tag = "ConsumedErr" /\ last.out.err.kind = "Eoi"
       /\ input.rem = <<>>
       /\ position(input) =
            position(last.pre) + Len(last.pre.rem) * UnitSize(input.kind)
       /\ last.out.err.pos = position(input)
       /\ distance(input, checkpoint(last.pre)) = Len(last.pre.rem)
  /\ (last.op = "decode" /\ last.arg = "plain" /\ is_partial(last.pre)
        /\ AllMatch(last.pre, "digit")) =>
       /\ last.dec.tag = "Ok" /\ last.dec.opt = "None"
       /\ last.dec.n = Len(last.pre.rem)
  /\ input_at_eof(input).s = input
  /\ input_at_eof(input).x = (input.rem = <<>>)

\* A run of two or more units to the end of a partial text cursor.
C25_Witness ==
  /\ RawOkAtEof /\ last.op = "uncons_while1" /\ input.kind = "str"
  /\ Len(last.pre.rem) >= 2 /\ Len(last.raw.val) = Len(last.pre.rem)
  /\ last.out.tag = "ConsumedErr"

\* Units of the original buffer that lie before the cursor.
Offset == Len(buf) - Len(input.rem)

\* The units the raw call of the last free function yielded.
RawYield ==
  IF ~last.raw.ok THEN <<>>
  ELSE IF last.op = "uncons" /\ last.pre.kind = "str" THEN Encode(last.raw.val)
  ELSE last.raw.val

\* C26: after any sequence of uncons, uncons_range, uncons_while,
\* uncons_while1, checkpoint and reset, successful or failed, the remaining
\* input of the cursor is a suffix of the original input; what a call yields
\* followed by what remains is what remained before the call, and a failed
\* call leaves the cursor alone; the remaining input of a text cursor begins
\* on a scalar boundary.
C26_SuffixInvariant ==
  /\ Offset >= 0
  /\ input.rem = SubSeq(buf, Offset + 1, Len(buf))
  /\ position(input) = BaseAddr + Offset * UnitSize(input.kind)
  /\ input.kind = "str" => (Offset = Len(buf) \/ Offset \in ScalarStarts(buf, 0))
  /\ IsFreeOp => RawYield \o input.rem = last.pre.rem
  /\ (IsFreeOp /\ ~last.raw.ok) => input = last.pre
  /\ \A i \in Slots :
       cps[i] # NoCp =>
         cps[i].rem = SubSeq(buf, Len(buf) - Len(cps[i].rem) + 1, Len(buf))

\* uncons_while on a text cursor stopped in front of U+00E9.
C26_Witness ==
  /\ last.op = "uncons_while" /\ input.kind = "str"
  /\ Len(last.raw.val) >= 1 /\ input.rem # <<>>
  /\ CharsNext(input.rem).c = EAcute

====
